---- MODULE Spec2Model ----
(***************************************************************************)
(* Model of DraggableContext.tsx: the drag-and-drop session that reorders  *)
(* articles inside a list and moves them between lists, the in-place        *)
(* mutation of the articleLists cache, and the replicache commands it       *)
(* sends (updateArticle, moveArticlePosition).                              *)
(*                                                                          *)
(* An Article is modelled by its id; its topic_id and the domain of its url *)
(* are fixed attributes of the id.  Array indices are 0-based as in the     *)
(* source; At(seq, i) is seq[i] of JavaScript (None when out of range).     *)
(* None stands for null / undefined / "no such value".                      *)
(*                                                                          *)
(* The caller always passes articleLists and a replicache client (the       *)
(* !articleLists returns and the rep?. short-circuits are not taken).  The  *)
(* parent is taken to store what setArticleLists receives and to pass it    *)
(* back as the prop.  DndContext runs one gesture at a time: onDragStart,   *)
(* then onDragOver any number of times, then onDragEnd, or no call at all   *)
(* when the gesture is cancelled.                                           *)
(***************************************************************************)
EXTENDS Integers, Sequences, FiniteSets, TLC

VARIABLES
    articleLists,   \* the ArticleListsCache prop: listId -> sequence of article ids
    activeListId,   \* useState activeListId (None = null)
    activeArticle,  \* useState activeArticle (None = null)
    dragActive,     \* the item DndContext is currently dragging (None = no gesture)
    pending,        \* the updateArticle promise whose .then has not run yet, if any
    cmds,           \* commands sent to replicache by the last step
    reported,       \* reportEvent calls of the last step
    published,      \* setArticleLists was called by the last step
    logged,         \* console.error was called by the last step
    threw,          \* the last step ended with an uncaught TypeError
    gestures,       \* number of gestures started so far
    last            \* the last step: the event and the path its handler took

vars == <<articleLists, activeListId, activeArticle, dragActive, pending,
          cmds, reported, published, logged, threw, gestures, last>>

None == "none"

\* ------------------------------------------------------------------ bounds
MaxEntries == 4      \* most entries, over all lists, a move may leave in the cache
MaxGestures == 2     \* gestures the input source starts in one run

\* ------------------------------------------------------------ the universe
Articles == {"a1", "a2", "a3"}

\* the list ids the caller uses, in the order it inserts them in the cache
AllKeys == <<"list", "queue", "favorites", "news_", "a.com", "misc">>

\* ids of droppable containers the input source can report as a bare target
ContainerIds == {"list", "queue", "favorites", "news_", "a.com", "misc",
                 "sports_", "archive"}

\* Object.keys(lists), in insertion order
ListKeys(lists) == SelectSeq(AllKeys, LAMBDA k : k \in DOMAIN lists)

\* article.topic_id
topic_id(a) == CASE a = "a1" -> "news_"
                 [] a = "a2" -> "sports_"
                 [] OTHER    -> "news_"

\* getDomain(article.url)
getDomain(a) == CASE a = "a1" -> "a.com"
                  [] a = "a2" -> "b.org"
                  [] OTHER    -> "b.org"

\* listId.endsWith("_")
endsWithUnderscore(s) == s \in {"news_", "sports_"}

\* listId.includes(".")
includesDot(s) == s \in {"a.com", "b.org"}

\* ------------------------------------------------------- array primitives
\* array[i]  (undefined when i is no index of the array)
At(seq, i) == IF i >= 0 /\ i < Len(seq) THEN seq[i + 1] ELSE None

\* array.findIndex((a) => a.id === id)
findIndex(seq, id) ==
    IF \E i \in 1..Len(seq) : seq[i] = id
    THEN (CHOOSE i \in 1..Len(seq) :
             seq[i] = id /\ \A j \in 1..(i - 1) : seq[j] # id) - 1
    ELSE -1

\* array.some((a) => a.id === id)
some(seq, id) == \E i \in 1..Len(seq) : seq[i] = id

\* array.filter((a) => a.id !== id)
filterOut(seq, id) == SelectSeq(seq, LAMBDA a : a # id)

\* relative index of slice/splice: negative counts from the end, clamped
RelIndex(len, k) == IF k < 0 THEN (IF len + k < 0 THEN 0 ELSE len + k)
                    ELSE (IF k > len THEN len ELSE k)

\* array.slice(from, to)
slice(seq, from, to) ==
    LET f == RelIndex(Len(seq), from)
        t == RelIndex(Len(seq), to)
    IN  IF f >= t THEN <<>> ELSE SubSeq(seq, f + 1, t)

\* array.slice(from)
sliceFrom(seq, from) == slice(seq, from, Len(seq))

\* keys.find((listId) => lists[listId].some((a) => a.id === id)), from the
\* i-th key on: the first key, in insertion order, whose list holds id
RECURSIVE findFrom(_, _, _, _)
findFrom(lists, keys, id, i) ==
    IF i > Len(keys) THEN None
    ELSE IF some(lists[keys[i]], id) THEN keys[i]
    ELSE findFrom(lists, keys, id, i + 1)

\* Object.keys(articleLists).find((listId) => articleLists[listId].some(...))
findList(lists, id) == findFrom(lists, ListKeys(lists), id, 1)

\* number of entries of the cache, over all its lists
RECURSIVE SumLen(_, _, _)
SumLen(lists, keys, i) ==
    IF i = 0 THEN 0 ELSE Len(lists[keys[i]]) + SumLen(lists, keys, i - 1)

Entries(lists) == SumLen(lists, ListKeys(lists), Len(ListKeys(lists)))

\* arrayMove(array, from, to) of @dnd-kit/sortable:
\*   newArray.splice(to < 0 ? newArray.length + to : to, 0, newArray.splice(from, 1)[0])
\* The insertion index is evaluated on the full array, before the removal.
arrayMove(array, from, to) ==
    LET len     == Len(array)
        pos     == IF to < 0 THEN len + to ELSE to
        start   == RelIndex(len, from)
        removed == At(array, start)
        rest    == slice(array, 0, start) \o sliceFrom(array, start + 1)
        ins     == RelIndex(Len(rest), pos)
    IN  slice(rest, 0, ins) \o <<removed>> \o sliceFrom(rest, ins)

\* sortKey with the favorites branch pasted from the queue branch
sortKey_FavoritesAsQueue(listId) ==
    IF listId = "list" THEN "recency_sort_position"
    ELSE IF listId = "queue" THEN "queue_sort_position"
    ELSE IF listId = "favorites" THEN "queue_sort_position"
    ELSE IF endsWithUnderscore(listId) THEN "topic_sort_position"
    ELSE IF includesDot(listId) THEN "domain_sort_position"
    ELSE None

\* sortKey with the final else branch falling back to the queue order
sortKey_UnknownAsQueue(listId) ==
    IF listId = "list" THEN "recency_sort_position"
    ELSE IF listId = "queue" THEN "queue_sort_position"
    ELSE IF listId = "favorites" THEN "favorites_sort_position"
    ELSE IF endsWithUnderscore(listId) THEN "topic_sort_position"
    ELSE IF includesDot(listId) THEN "domain_sort_position"
    ELSE "queue_sort_position"

\* handleDragEnd's choice of the sort order to modify (None = not determined)
sortKey(listId) ==
    IF listId = "list" THEN "recency_sort_position"
    ELSE IF listId = "queue" THEN "queue_sort_position"
    ELSE IF listId = "favorites" THEN "favorites_sort_position"
    ELSE IF endsWithUnderscore(listId) THEN "topic_sort_position"
    ELSE IF includesDot(listId) THEN "domain_sort_position"
    ELSE None

\* newIndexShifted without the shift of a move to the right
newIndexShifted_Unshifted(oldIndex, newIndex) == newIndex

\* "moving an article to the right shifts successors one index to the left"
newIndexShifted(oldIndex, newIndex) ==
    IF oldIndex < newIndex THEN newIndex + 1 ELSE newIndex

\* --------------------------------------------------------------- commands
\* rep.mutate.updateArticle({id, is_queued, queue_sort_position})
UpdateArticle(id, queued, withPosition) ==
    [type |-> "updateArticle", id |-> id, is_queued |-> queued,
     queue_sort_position |-> withPosition]

\* rep.mutate.moveArticlePosition({articleId, ...})
MoveArticlePosition(id, before, after, sortPosition) ==
    [type |-> "moveArticlePosition", articleId |-> id,
     articleIdBeforeNewPosition |-> before,
     articleIdAfterNewPosition |-> after,
     sortPosition |-> sortPosition]

\* the targets an over / end event can carry: none, a bare container id
\* (over.data.current unset) or a sortable item (over.data.current set)
NoOver == [id |-> None, data |-> FALSE]

Targets == {NoOver}
             \cup {[id |-> c, data |-> FALSE] : c \in ContainerIds}
             \cup {[id |-> a, data |-> TRUE] : a \in Articles}

\* what one step leaves behind for the caller to observe
Emit(c, r, p, l, t) ==
    /\ cmds' = c
    /\ reported' = r
    /\ published' = p
    /\ logged' = l
    /\ threw' = t

Quiet == Emit(<<>>, <<>>, FALSE, FALSE, FALSE)

\* progress of the gesture "start on an item whose list is queue, over onto
\* the empty container favorites, end on it", followed without any step in
\* between
NoScenario == [stage |-> 0, item |-> None]

Scenario(ev, id, over, lists) ==
    IF /\ ev = "start"
       /\ "favorites" \in DOMAIN lists
       /\ lists["favorites"] = <<>>
       /\ findList(lists, id) = "queue"
    THEN [stage |-> 1, item |-> id]
    ELSE IF ev = "over" /\ last.scenario.stage = 1 /\ over = [id |-> "favorites", data |-> FALSE]
    THEN [stage |-> 2, item |-> last.scenario.item]
    ELSE IF ev = "end" /\ last.scenario.stage = 2 /\ over = [id |-> "favorites", data |-> FALSE]
    THEN [stage |-> 3, item |-> last.scenario.item]
    ELSE NoScenario

\* the record of a step: the event, the path its handler took, the two
\* indices the handler computed (oldIndex and newIndex at end, targetIndex
\* at over) and the progress of the scenario
Step(ev, path, over, from, to) ==
    last' = [ev |-> ev, path |-> path, from |-> from, to |-> to,
             scenario |-> IF path = "return" /\ ev = "start" THEN NoScenario
                          ELSE Scenario(ev, dragActive', over, articleLists)]

\* ------------------------------------------------------------------ Init
\* the caches the caller passes at first: the main page (lists "list",
\* "queue", "favorites"), the grouped page (a topic list and a domain list
\* next to the queue) and a page with a list of no recognised form
InitCaches ==
    { ("list" :> <<>> @@ "queue" :> <<"a1", "a2", "a3">> @@ "favorites" :> <<>>),
      ("list" :> <<"a1", "a2">> @@ "queue" :> <<>> @@ "favorites" :> <<"a3">>),
      ("queue" :> <<"a1", "a2">> @@ "news_" :> <<"a3">> @@ "a.com" :> <<>>),
      ("queue" :> <<"a1", "a2">> @@ "misc" :> <<"a3">>) }

Init ==
    /\ articleLists \in InitCaches
    /\ activeListId = None
    /\ activeArticle = None
    /\ dragActive = None
    /\ pending = {}
    /\ cmds = <<>>
    /\ reported = <<>>
    /\ published = FALSE
    /\ logged = FALSE
    /\ threw = FALSE
    /\ gestures = 0
    /\ last = [ev |-> "init", path |-> "init", from |-> -1, to |-> -1,
               scenario |-> NoScenario]

\* ------------------------------------------------------------ handleDragStart
\* DndContext calls onDragStart when a gesture begins on item id; hasData is
\* whether active.data.current is set.
handleDragStart(id, hasData) ==
    /\ dragActive = None
    /\ gestures < MaxGestures
    /\ gestures' = gestures + 1
    /\ dragActive' = id
    /\ Quiet
    /\ UNCHANGED <<articleLists, pending>>
    /\ IF ~hasData
       THEN /\ UNCHANGED <<activeListId, activeArticle>>
            /\ Step("start", "return", NoOver, -1, -1)
       ELSE LET sourceList == findList(articleLists, id)
            IN  /\ activeListId' = sourceList
                /\ activeArticle' = IF sourceList # None THEN id ELSE activeArticle
                /\ Step("start", IF sourceList # None THEN "found" ELSE "notfound",
                        NoOver, -1, -1)

\* ------------------------------------------------------------- handleDragOver
\* the list a target refers to: the id itself for a bare container, the
\* containing list for a sortable item
targetListOf(lists, over) ==
    IF ~over.data THEN over.id ELSE findList(lists, over.id)

\* notQueueMove with both comparisons negated
notQueueMove_Negated(sourceList, targetList) ==
    sourceList = "queue" /\ targetList = "queue"

\* "only allow moving from or to the reading queue for now"
notQueueMove(sourceList, targetList) ==
    sourceList # "queue" /\ targetList # "queue"

\* groupMismatch without the domain check
groupMismatch_TopicOnly(targetList, article) ==
    endsWithUnderscore(targetList) /\ topic_id(article) # targetList

\* "attempted move into non-matching topic or domain group"
groupMismatch(targetList, article) ==
    \/ endsWithUnderscore(targetList) /\ topic_id(article) # targetList
    \/ includesDot(targetList) /\ getDomain(article) # targetList

\* insertAt that leaves the article out
insertAt_Dropped(target, targetIndex, article) == target

\* the local insertion of article at targetIndex of target
insertAt(target, targetIndex, article) ==
    slice(target, 0, targetIndex) \o <<article>> \o sliceFrom(target, targetIndex)

handleDragOver(over) ==
    /\ dragActive # None
    /\ UNCHANGED <<dragActive, activeArticle, gestures>>
    /\ LET active     == dragActive
           sourceList == findList(articleLists, active)
           targetList == targetListOf(articleLists, over)
       IN
       IF over.id = None \/ activeArticle = None
       THEN /\ Quiet /\ Step("over", "return", over, -1, -1)
            /\ UNCHANGED <<articleLists, activeListId, pending>>
       ELSE IF targetList = None \/ sourceList = targetList
       THEN /\ Quiet /\ Step("over", "same", over, -1, -1)
            /\ UNCHANGED <<articleLists, activeListId, pending>>
       ELSE IF notQueueMove(sourceList, targetList)
       THEN /\ Quiet /\ Step("over", "notqueue", over, -1, -1)
            /\ UNCHANGED <<articleLists, activeListId, pending>>
       ELSE IF groupMismatch(targetList, activeArticle)
       THEN /\ Quiet /\ Step("over", "mismatch", over, -1, -1)
            /\ UNCHANGED pending
            /\ IF sourceList # None
               THEN /\ articleLists' =
                        [articleLists EXCEPT ![sourceList] =
                            filterOut(articleLists[sourceList], activeArticle)]
                    /\ activeListId' = None
               ELSE UNCHANGED <<articleLists, activeListId>>
       ELSE IF targetList \notin DOMAIN articleLists
       THEN \* articleLists[targetList] is undefined: findIndex of undefined
            /\ Emit(<<>>, <<>>, FALSE, FALSE, TRUE)
            /\ Step("over", "throw", over, -1, -1)
            /\ UNCHANGED <<articleLists, activeListId, pending>>
       ELSE LET targetIndex == findIndex(articleLists[targetList], over.id)
                removed == IF sourceList # None
                           THEN [articleLists EXCEPT ![sourceList] =
                                   filterOut(articleLists[sourceList], activeArticle)]
                           ELSE articleLists
            IN  /\ Entries(removed) < MaxEntries
                /\ pending = {}
                /\ articleLists' =
                       [removed EXCEPT ![targetList] =
                           insertAt(removed[targetList], targetIndex, activeArticle)]
                /\ activeListId' = targetList
                /\ pending' =
                       {[articleId |-> activeArticle, targetList |-> targetList,
                         targetIndex |-> targetIndex, live |-> TRUE,
                         list |-> <<>>, was |-> articleLists[targetList]]}
                /\ Emit(<<UpdateArticle(activeArticle, targetList = "queue", TRUE)>>,
                        IF targetList = "queue" THEN <<"addArticleToQueue">> ELSE <<>>,
                        FALSE, FALSE, FALSE)
                /\ Step("over", "move", over, -1, targetIndex)

\* the .then of updateArticle: "move to target position to be safe".  The
\* model follows one promise at a time: a later cross-list move is made
\* once the promise of the earlier one has resolved.  The callback
\* runs after handleDragOver has returned, at any later time, and reads the
\* cache object its closure captured: the live one, or the copy that was
\* current when setArticleLists replaced it (p.list is that copy's
\* articleLists[p.targetList], the only entry the callback reads).  p.was
\* records the target sequence before the insertion.
thenMoveArticlePosition(p) ==
    LET list == IF p.live THEN articleLists[p.targetList] ELSE p.list
    IN  MoveArticlePosition(p.articleId,
                            At(list, p.targetIndex),
                            At(list, p.targetIndex + 1),
                            "queue_sort_position")

ResolveUpdate(p) ==
    /\ p \in pending
    /\ pending' = pending \ {p}
    /\ Emit(<<thenMoveArticlePosition(p)>>, <<>>, FALSE, FALSE, FALSE)
    /\ Step("then", "then", NoOver, -1, p.targetIndex)
    /\ UNCHANGED <<articleLists, activeListId, activeArticle, dragActive, gestures>>

\* -------------------------------------------------------------- handleDragEnd
\* setArticleLists({ ...articleLists }): the parent gets a copy and passes it
\* back as the prop; promises still pending keep reading the old object
setArticleLists(lists) ==
    {IF p.live THEN [p EXCEPT !.live = FALSE, !.list = lists[p.targetList]]
               ELSE p : p \in pending}

\* the positional command of a reorder, from the list before the move
endMoveArticlePosition(list, active, oldIndex, newIndex, key) ==
    LET shifted == newIndexShifted(oldIndex, newIndex)
    IN  MoveArticlePosition(active, At(list, shifted - 1), At(list, shifted), key)

handleDragEnd(over) ==
    /\ dragActive # None
    /\ dragActive' = None
    /\ UNCHANGED gestures
    /\ LET active == dragActive
       IN
       IF over.id = None
       THEN /\ Quiet /\ Step("end", "return", over, -1, -1)
            /\ UNCHANGED <<articleLists, activeListId, activeArticle, pending>>
       ELSE IF activeListId = None
       THEN \* "remove from queue"
            /\ Emit(<<UpdateArticle(active, FALSE, FALSE)>>, <<>>, FALSE, FALSE, FALSE)
            /\ Step("end", "nolist", over, -1, -1)
            /\ UNCHANGED <<articleLists, activeListId, activeArticle, pending>>
       ELSE IF active # over.id
       THEN LET list     == articleLists[activeListId]
                oldIndex == findIndex(list, active)
                newIndex == findIndex(list, over.id)
                key      == sortKey(activeListId)
            IN  IF key = None
                THEN /\ Emit(<<>>, <<>>, FALSE, TRUE, FALSE)
                     /\ Step("end", "nosortkey", over, oldIndex, newIndex)
                     /\ UNCHANGED <<articleLists, activeListId, activeArticle, pending>>
                ELSE /\ articleLists' =
                         [articleLists EXCEPT ![activeListId] =
                             arrayMove(list, oldIndex, newIndex)]
                     /\ pending' = setArticleLists(articleLists')
                     /\ activeArticle' = None
                     /\ activeListId' = None
                     /\ Emit(<<endMoveArticlePosition(list, active, oldIndex,
                                                      newIndex, key)>>,
                             <<"reorderArticles">>, TRUE, FALSE, FALSE)
                     /\ Step("end", "reorder", over, oldIndex, newIndex)
       ELSE /\ activeArticle' = None
            /\ activeListId' = None
            /\ Emit(<<>>, <<"reorderArticles">>, FALSE, FALSE, FALSE)
            /\ Step("end", "self", over, -1, -1)
            /\ UNCHANGED <<articleLists, pending>>

\* DndContext ends a gesture without calling a handler (Escape, lost pointer):
\* no onDragCancel is registered
DragCancel ==
    /\ dragActive # None
    /\ dragActive' = None
    /\ Quiet
    /\ Step("cancel", "cancel", NoOver, -1, -1)
    /\ UNCHANGED <<articleLists, activeListId, activeArticle, pending, gestures>>

Next ==
    \/ \E id \in Articles, hasData \in BOOLEAN : handleDragStart(id, hasData)
    \/ \E over \in Targets : handleDragOver(over)
    \/ \E over \in Targets : handleDragEnd(over)
    \/ \E p \in pending : ResolveUpdate(p)
    \/ DragCancel

Spec == Init /\ [][Next]_vars

\* every list holds article ids only (arrayMove never stored an undefined)
NoUndefined == \A k \in DOMAIN articleLists : \A i \in 1..Len(articleLists[k]) :
                  articleLists[k][i] \in Articles

\* ------------------------------------------------------------------ claims

\* C1: every end event, whatever the session state and its target, leaves
\* the session Idle with no active item and no recorded source list, and
\* emits the session-complete notification exactly once.
C1_EndLeavesIdle ==
    last.ev = "end" =>
        /\ activeListId = None
        /\ activeArticle = None
        /\ reported = <<"reorderArticles">>

\* C2: every item id appears in at most one list of the collection, and at
\* most once in that list, after any sequence of start, over and end events.
C2_NoDuplicateMembership ==
    \A k1 \in DOMAIN articleLists, k2 \in DOMAIN articleLists :
        \A i \in 1..Len(articleLists[k1]), j \in 1..Len(articleLists[k2]) :
            articleLists[k1][i] = articleLists[k2][j] => k1 = k2 /\ i = j

\* C3: the positional command of an accepted cross-list move onto a hovered
\* item at index t of the target names as after neighbor the item at index t
\* of the target sequence before the insertion and as before neighbor the
\* item at index t-1 of it (absent when t = 0), whenever the membership
\* command completes.
C3_PreInsertionNeighbors ==
    [][\A p \in pending :
          (last'.ev = "then" /\ p.targetIndex >= 0 /\ ResolveUpdate(p)) =>
              /\ cmds'[1].articleIdAfterNewPosition = At(p.was, p.targetIndex)
              /\ cmds'[1].articleIdBeforeNewPosition = At(p.was, p.targetIndex - 1)]_vars

\* C8: no start, over or end event ever fails with an exception.
C8_NeverThrows == threw = FALSE

\* C9: every end event received while the session has no recorded source
\* list issues exactly one membership-clear command for the dragged item and
\* no positional command, whether or not the end carries a target.
C9_EndWithoutSourceClears ==
    [][\A over \in Targets :
          (last'.ev = "end" /\ activeListId = None /\ handleDragEnd(over)) =>
              cmds' = <<UpdateArticle(dragActive, FALSE, FALSE)>>]_vars

\* C10: a start event for an item id contained in no list leaves the session
\* Idle, with no active item and no recorded source list, and leaves the
\* collection unchanged, whatever events preceded it.
C10_StartNotFoundIdle ==
    [][\A id \in Articles, hasData \in BOOLEAN :
          (/\ last'.ev = "start"
           /\ findList(articleLists, id) = None
           /\ handleDragStart(id, hasData)) =>
              /\ activeListId' = None
              /\ activeArticle' = None
              /\ articleLists' = articleLists]_vars

\* the sequence after the item at index old has been taken out and put
\* back at index new
Moved(seq, old, new) ==
    [i \in 1..Len(seq) |->
        IF old < new
        THEN IF i - 1 < old THEN seq[i]
             ELSE IF i - 1 < new THEN seq[i + 1]
             ELSE IF i - 1 = new THEN seq[old + 1]
             ELSE seq[i]
        ELSE IF i - 1 < new THEN seq[i]
             ELSE IF i - 1 = new THEN seq[old + 1]
             ELSE IF i - 1 <= old THEN seq[i - 1]
             ELSE seq[i]]

\* C4: an end event that reorders an item inside its recorded source list,
\* from oldIndex to a different valid index newIndex of that list, leaves the
\* array-move of oldIndex to newIndex as the local sequence and sends one
\* positional command whose neighbors are the items right before and right
\* after the moved item in that sequence, forward and backward alike.
C4_ReorderNeighbors ==
    [][\A over \in Targets :
          (/\ last'.ev = "end"
           /\ activeListId # None
           /\ over.id # None
           /\ sortKey(activeListId) # None
           /\ findIndex(articleLists[activeListId], dragActive) >= 0
           /\ findIndex(articleLists[activeListId], over.id) >= 0
           /\ dragActive # over.id
           /\ handleDragEnd(over)) =>
              LET list     == articleLists[activeListId]
                  oldIndex == findIndex(list, dragActive)
                  newIndex == findIndex(list, over.id)
                  post     == Moved(list, oldIndex, newIndex)
              IN  /\ articleLists'[activeListId] = post
                  /\ Len(cmds') = 1
                  /\ cmds'[1].type = "moveArticlePosition"
                  /\ cmds'[1].articleId = dragActive
                  /\ cmds'[1].articleIdBeforeNewPosition = At(post, newIndex - 1)
                  /\ cmds'[1].articleIdAfterNewPosition = At(post, newIndex + 1)]_vars

\* a forward reorder into the interior of a list has been made
C4_Witness ==
    /\ last.ev = "end"
    /\ last.path = "reorder"
    /\ last.from >= 0
    /\ last.to > last.from
    /\ cmds[1].articleIdBeforeNewPosition # None
    /\ cmds[1].articleIdAfterNewPosition # None

\* C5: an over event whose resolved target list differs from the list that
\* holds the dragged item, neither being "queue", changes neither the
\* collection nor the active item nor the recorded source list, and issues
\* no command and no telemetry event.
C5_NotQueueDenied ==
    [][(last'.ev = "over" /\ findList(articleLists, dragActive) # "queue") =>
          LET sourceList == findList(articleLists, dragActive)
          IN  \A over \in Targets :
                 LET targetList == targetListOf(articleLists, over)
                 IN  (/\ targetList # None
                      /\ targetList # sourceList
                      /\ targetList # "queue"
                      /\ handleDragOver(over)) =>
                         /\ UNCHANGED <<articleLists, activeArticle,
                                        activeListId, pending>>
                         /\ cmds' = <<>>
                         /\ reported' = <<>>]_vars

\* a session that is dragging an item has been denied a move between two
\* lists other than the queue
C5_Witness ==
    /\ last.ev = "over"
    /\ last.path = "notqueue"
    /\ activeArticle # None
    /\ activeArticle = dragActive

\* C6: an over event of a session dragging an item of "queue" onto a
\* topic-form target whose key differs from the item's topic, or a
\* domain-form target whose key differs from the item's domain, removes the
\* item from its source list, leaves every other list unchanged, clears the
\* recorded source list, keeps the active item and issues no store command.
C6_MismatchRemoves ==
    [][\A over \in Targets :
          (/\ last'.ev = "over"
           /\ activeArticle # None
           /\ activeArticle = dragActive
           /\ findList(articleLists, dragActive) = "queue"
           /\ LET T == targetListOf(articleLists, over)
              IN  /\ T # None
                  /\ \/ endsWithUnderscore(T) /\ topic_id(dragActive) # T
                     \/ includesDot(T) /\ getDomain(dragActive) # T
           /\ handleDragOver(over)) =>
              /\ DOMAIN articleLists' = DOMAIN articleLists
              /\ \A k \in DOMAIN articleLists :
                    articleLists'[k] =
                        IF k = "queue"
                        THEN SelectSeq(articleLists[k], LAMBDA a : a # dragActive)
                        ELSE articleLists[k]
              /\ ~some(articleLists'["queue"], dragActive)
              /\ activeListId' = None
              /\ activeArticle' = activeArticle
              /\ cmds' = <<>>
              /\ pending' = pending]_vars

\* an item has fallen out of the queue over a group it does not match
C6_Witness ==
    /\ last.ev = "over"
    /\ last.path = "mismatch"
    /\ activeListId = None
    /\ activeArticle # None
    /\ activeArticle = dragActive
    /\ findList(articleLists, dragActive) = None

\* C7 as stated: in the gesture start on an item of "queue", over onto the
\* empty list "favorites", end, the over mutates nothing and issues no
\* command, and the end issues a membership-clear command for the item, no
\* positional command, and resets the session to Idle.
C7_EndClearsMembership ==
    /\ last.scenario.stage = 2 =>
          /\ some(articleLists["queue"], last.scenario.item)
          /\ articleLists["favorites"] = <<>>
          /\ cmds = <<>>
    /\ last.scenario.stage = 3 =>
          /\ cmds = <<UpdateArticle(last.scenario.item, FALSE, FALSE)>>
          /\ activeListId = None
          /\ activeArticle = None

\* C7 (amended): in that gesture the over is accepted, queue being the
\* source: it moves the item from queue into favorites and issues a
\* membership command that takes it off the queue; the end, delivered on the
\* same target, issues no membership command but one positional command for
\* the item on the favorites ordering that names no neighbor, and resets the
\* session to Idle.
C7_EndSendsPosition ==
    /\ last.scenario.stage = 2 =>
          /\ ~some(articleLists["queue"], last.scenario.item)
          /\ articleLists["favorites"] = <<last.scenario.item>>
          /\ activeListId = "favorites"
          /\ activeArticle = last.scenario.item
          /\ cmds = <<UpdateArticle(last.scenario.item, FALSE, TRUE)>>
    /\ last.scenario.stage = 3 =>
          /\ cmds = <<MoveArticlePosition(last.scenario.item, None, None,
                                          "favorites_sort_position")>>
          /\ ~some(articleLists["queue"], last.scenario.item)
          /\ articleLists["favorites"] = <<last.scenario.item>>
          /\ activeListId = None
          /\ activeArticle = None
          /\ reported = <<"reorderArticles">>

\* the gesture has been carried through to its end
C7_Witness == last.scenario.stage = 3

\* the items of a list other than the item being dragged, in their order
Others(seq) == SelectSeq(seq, LAMBDA a : a # dragActive)

\* C11: across every start, over and end transition, in every list the
\* items other than the dragged item keep their membership and their
\* relative order; only the dragged item is removed, inserted or
\* repositioned.
C11_OthersKeepOrder ==
    [][/\ DOMAIN articleLists' = DOMAIN articleLists
       /\ \A k \in DOMAIN articleLists :
             Others(articleLists'[k]) = Others(articleLists[k])]_vars

\* index i clamped to the range 0..len
Clamped(i, len) == IF i < 0 THEN 0 ELSE IF i > len THEN len ELSE i

\* C12: after every accepted cross-list move the dragged item sits in the
\* target list at targetIndex clamped to 0..length of the target sequence
\* before the insertion; for a bare list identifier as target (the lookup
\* yields -1) that is index 0, a bound of the sequence, not its interior.
C12_InsertedAtClampedIndex ==
    (last.ev = "over" /\ last.path = "move") =>
        \A p \in pending :
            LET t == Clamped(p.targetIndex, Len(p.was))
            IN  articleLists[p.targetList] =
                    SubSeq(p.was, 1, t) \o <<p.articleId>>
                        \o SubSeq(p.was, t + 1, Len(p.was))

\* C13: for every accepted cross-list move into an empty target list, the
\* positional command sent to the store has both the before neighbor and
\* the after neighbor absent.
C13_EmptyTargetNoNeighbors ==
    [][\A p \in pending :
          (last'.ev = "then" /\ p.was = <<>> /\ ResolveUpdate(p)) =>
              /\ cmds'[1].type = "moveArticlePosition"
              /\ cmds'[1].articleIdBeforeNewPosition = None
              /\ cmds'[1].articleIdAfterNewPosition = None]_vars

\* a list id of none of the recognised forms: no fixed name, no topic-form
\* id, no domain-form id
UnknownForm(l) ==
    l \notin {"list", "queue", "favorites", "news_", "sports_", "a.com", "b.org"}

\* a positional command is among the commands of a step
SendsPosition(c) == \E i \in 1..Len(c) : c[i].type = "moveArticlePosition"

C15_MutationPublished ==
    [][articleLists' # articleLists => published' = TRUE]_vars

\* C16: positional commands for one item reach the store in the order of
\* the local moves that produced them: when the end sends its positional
\* command for an item, the positional command of every earlier accepted
\* over move of that item has been sent already (none is still waiting for
\* its membership command to complete).
C16_OverPositionBeforeEnd ==
    (last.ev = "end" /\ SendsPosition(cmds)) =>
        \A p \in pending : p.articleId # cmds[1].articleId

\* the ordering attribute that belongs to the form of a list id
FormAttribute(l) ==
    CASE l = "list"                -> "recency_sort_position"
      [] l = "queue"               -> "queue_sort_position"
      [] l = "favorites"           -> "favorites_sort_position"
      [] l \in {"news_", "sports_"} -> "topic_sort_position"
      [] l \in {"a.com", "b.org"}   -> "domain_sort_position"
      [] OTHER                     -> None

\* C17: every positional command sent for an item placed into list L, by a
\* cross-list move in over as well as by a reorder at end, carries the
\* ordering attribute determined by the form of L.
C17_AttributeOfTargetForm ==
    [][/\ \A p \in pending :
             (last'.ev = "then" /\ ResolveUpdate(p)) =>
                 cmds'[1].sortPosition = FormAttribute(p.targetList)
       /\ (last'.ev = "end" /\ SendsPosition(cmds')) =>
             cmds'[1].sortPosition = FormAttribute(activeListId)]_vars

\* C18: in every reachable state, if the session has a recorded source list
\* L then it also has an active item, L is a key of the collection, and the
\* active item is an element of L's sequence.
C18_RecordedListHoldsActive ==
    activeListId # None =>
        /\ activeArticle # None
        /\ activeListId \in DOMAIN articleLists
        /\ \E i \in 1..Len(articleLists[activeListId]) :
              articleLists[activeListId][i] = activeArticle

\* a cross-list move has recorded its target as the source list of the
\* session
C18_Witness ==
    /\ last.ev = "over"
    /\ last.path = "move"
    /\ activeListId # None
    /\ activeArticle # None
    /\ Len(articleLists[activeListId]) > 1

\* C19: no positional command sent to the store, by over or by end, names
\* the moved item itself as its own before neighbor or after neighbor.
C19_NotOwnNeighbor ==
    \A i \in 1..Len(cmds) :
        cmds[i].type = "moveArticlePosition" =>
            /\ cmds[i].articleIdBeforeNewPosition # cmds[i].articleId
            /\ cmds[i].articleIdAfterNewPosition # cmds[i].articleId

\* C20: every end event that sends a positional command describes the
\* position the item has in the local snapshot after that transition, also
\* when the end target is no item of the recorded source list: the
\* command's neighbors are the items adjacent to the dragged item in the
\* sequence after the transition, and a command that names no neighbors in
\* a list with other items leaves the order of that list unchanged.
C20_EndDescribesPosition ==
    [][\A over \in Targets :
          (/\ last'.ev = "end"
           /\ last'.path = "reorder"
           /\ handleDragEnd(over)) =>
              LET pre  == articleLists[activeListId]
                  post == articleLists'[activeListId]
                  i    == findIndex(post, dragActive)
                  c    == cmds'[1]
              IN  /\ c.articleIdBeforeNewPosition = At(post, i - 1)
                  /\ c.articleIdAfterNewPosition = At(post, i + 1)
                  /\ (/\ c.articleIdBeforeNewPosition = None
                      /\ c.articleIdAfterNewPosition = None
                      /\ Len(pre) > 1) => post = pre]_vars

====
